---- MODULE Spec2Model ----
(***************************************************************************)
(* A model of xen-dev-utils' index module (floor division, the extended    *)
(* and iterated Euclidean algorithms, FractionSet, circle distance) and of *)
(* its combinations module (kCombinations).                                *)
(*                                                                         *)
(* One behaviour is one use of the library: Init draws a call (a function  *)
(* and its arguments) and the actions run that function's code.  The loop  *)
(* of extendedEuclid is run one iteration per step; a FractionSet receives *)
(* an arbitrary sequence of add / delete / has calls.                      *)
(***************************************************************************)
EXTENDS Integers, Sequences, FiniteSets

VARIABLES call, pc, regs, ret, fset

vars == <<call, pc, regs, ret, fset>>

(***************************************************************************)
(* Bounds of the model.                                                    *)
(***************************************************************************)
MaxInt == 6
MaxIterInt == 3
MaxIterLen == 3
MaxPeriod == 7
MaxElement == 2
MaxSetLen == 4
MaxNumerator == 1
MaxDenominator == 2
MaxMembers == 2

Range == (0 - MaxInt)..MaxInt

Abs(n) == IF n < 0 THEN 0 - n ELSE n

(***************************************************************************)
(* JS numbers.  The integers are themselves; the three values an integer   *)
(* division can produce that are not integers are tagged records.          *)
(***************************************************************************)
Num(n) == [fin |-> TRUE, v |-> n]
NaN == [fin |-> FALSE, v |-> 0]
Infinity == [fin |-> FALSE, v |-> 1]
NegInfinity == [fin |-> FALSE, v |-> 0 - 1]

isNaN(x) == x = NaN

NoRet == [kind |-> "none", val |-> NaN]
Return(v) == [kind |-> "return", val |-> v]
Throw(msg) == [kind |-> "throw", val |-> msg]
\* A method that returns the object it was called on.
ReturnThis == [kind |-> "this", val |-> NaN]

(***************************************************************************)
(* div: Math.floor(a / b).  The quotient a / b of two integers is a real   *)
(* number for b # 0, and Infinity, -Infinity or NaN for b = 0; Math.floor  *)
(* maps a real to the largest integer not above it and leaves the          *)
(* non-finite values alone.  Nothing is thrown.                            *)
(***************************************************************************)
divTruncating(a, b) ==
    IF b = 0
    THEN IF a > 0 THEN Infinity ELSE IF a < 0 THEN NegInfinity ELSE NaN
    ELSE LET q == Abs(a) \div Abs(b)
         IN  Num(IF (a < 0) = (b < 0) THEN q ELSE 0 - q)

div(a, b) ==
    IF b = 0
    THEN IF a > 0 THEN Infinity ELSE IF a < 0 THEN NegInfinity ELSE NaN
    ELSE LET n == IF b < 0 THEN 0 - a ELSE a
             d == Abs(b)
         IN  Num(n \div d)

(***************************************************************************)
(* extendedEuclid.                                                         *)
(***************************************************************************)
ZeroRegs == [rOld |-> 0, r |-> 0, sOld |-> 0, s |-> 0, tOld |-> 0, t |-> 0]

InvalidInputOrZero(a, b) == isNaN(a) \/ isNaN(b) \/ (a.v = 0 /\ b.v = 0)

InvalidInput(a, b) == isNaN(a) \/ isNaN(b)

EuclidInit(a, b) ==
    [rOld |-> a, r |-> b, sOld |-> 1, s |-> 0, tOld |-> 0, t |-> 1]

\* The assignments made one after the other instead of pairwise at once.
EuclidStepSequential(g) ==
    LET quotient == div(g.rOld, g.r).v
    IN  [rOld |-> g.r, r |-> g.r - quotient * g.r,
         sOld |-> g.s, s |-> g.s - quotient * g.s,
         tOld |-> g.t, t |-> g.t - quotient * g.t]

\* The s row updated from the wrong old value.
EuclidStepWrongS(g) ==
    LET quotient == div(g.rOld, g.r).v
    IN  [rOld |-> g.r, r |-> g.rOld - quotient * g.r,
         sOld |-> g.s, s |-> g.sOld - quotient * g.sOld,
         tOld |-> g.t, t |-> g.tOld - quotient * g.t]

EuclidStep(g) ==
    LET quotient == div(g.rOld, g.r).v
    IN  [rOld |-> g.r, r |-> g.rOld - quotient * g.r,
         sOld |-> g.s, s |-> g.sOld - quotient * g.s,
         tOld |-> g.t, t |-> g.tOld - quotient * g.t]

EuclidResult(g) ==
    [coefA |-> g.sOld, coefB |-> g.tOld, gcd |-> g.rOld,
     quotientA |-> g.t, quotientB |-> Abs(g.s)]

RECURSIVE EuclidLoop(_)
EuclidLoop(g) == IF g.r # 0 THEN EuclidLoop(EuclidStep(g)) ELSE g

\* The whole function, as its callers see it.
extendedEuclid(a, b) ==
    IF InvalidInput(a, b)
    THEN Throw("Invalid input")
    ELSE Return(EuclidResult(EuclidLoop(EuclidInit(a.v, b.v))))

(***************************************************************************)
(* iteratedEuclid.  The accumulator a is undefined until the first         *)
(* parameter has been read; an error of extendedEuclid propagates.         *)
(***************************************************************************)
IterStart == [kind |-> "return", defined |-> FALSE, a |-> NaN, coefs |-> <<>>]

IterStep(st, param) ==
    IF st.kind = "throw" THEN st
    ELSE IF ~st.defined
    THEN [st EXCEPT !.defined = TRUE, !.a = param, !.coefs = <<1>>]
    ELSE LET ee == extendedEuclid(st.a, param)
         IN  IF ee.kind = "throw"
             THEN [st EXCEPT !.kind = "throw"]
             ELSE [st EXCEPT !.a = Num(ee.val.gcd),
                             !.coefs =
                                 Append([j \in 1..Len(st.coefs) |->
                                             st.coefs[j] * ee.val.coefA],
                                        ee.val.coefB)]

RECURSIVE IterFold(_, _, _)
IterFold(params, i, st) ==
    IF i > Len(params) THEN st
    ELSE IterFold(params, i + 1, IterStep(st, params[i]))

iteratedEuclid(params) ==
    LET st == IterFold(params, 1, IterStart)
    IN  IF st.kind = "throw" THEN Throw("Invalid input") ELSE Return(st.coefs)

(***************************************************************************)
(* Fractions and FractionSet.  A Fraction object is the record of its      *)
(* numerator n and denominator d, in lowest terms with d > 0, together     *)
(* with obj, the identity of the object (the arguments it was constructed  *)
(* from).  The Set a FractionSet extends is the sequence of its members in *)
(* insertion order, which is the order has and delete scan it in.          *)
(***************************************************************************)
Gcd(a, b) ==
    CHOOSE g \in 1..(a + b + 1) :
        /\ a % g = 0
        /\ b % g = 0
        /\ \A h \in (g + 1)..(a + b + 1) : ~(a % h = 0 /\ b % h = 0)

Fraction(num, den) ==
    LET g == Gcd(Abs(num), den)
    IN  [obj |-> <<num, den>>,
         n |-> IF num < 0 THEN 0 - (Abs(num) \div g) ELSE num \div g,
         d |-> den \div g]

equals(x, y) == x.n = y.n /\ x.d = y.d

\* Set.prototype.add and Set.prototype.delete: membership is identity.
SetAdd(set, value) ==
    IF \E i \in 1..Len(set) : set[i].obj = value.obj
    THEN set
    ELSE Append(set, value)

SetDelete(set, other) ==
    SelectSeq(set, LAMBDA x : x.obj # other.obj)

FractionSetHas(set, value) ==
    \E i \in 1..Len(set) : equals(set[i], value)

\* add without the membership test.
FractionSetAddUnchecked(set, value) == SetAdd(set, value)

FractionSetAdd(set, value) ==
    IF FractionSetHas(set, value) THEN set ELSE SetAdd(set, value)

\* The set after delete(value), and what delete returns.
FractionSetDelete(set, value) ==
    IF \E i \in 1..Len(set) : equals(set[i], value)
    THEN LET first == CHOOSE i \in 1..Len(set) :
                          /\ equals(set[i], value)
                          /\ \A j \in 1..(i - 1) : ~equals(set[j], value)
         IN  [set |-> SetDelete(set, set[first]), result |-> TRUE]
    ELSE [set |-> set, result |-> FALSE]

(***************************************************************************)
(* binomial: the table of Pascal's triangle, built out row by row.         *)
(***************************************************************************)
RECURSIVE BinomialRow(_)
BinomialRow(n) ==
    IF n = 0 THEN <<1>>
    ELSE LET lastRow == BinomialRow(n - 1)
         IN  <<1>> \o [i \in 1..(n - 1) |-> lastRow[i] + lastRow[i + 1]] \o <<1>>

binomial(n, k) == BinomialRow(n)[k + 1]

(***************************************************************************)
(* circleDifference and circleDistance.  The numbers of these two are      *)
(* multiples of 1/2 held doubled (Fixed), which makes 0.5 * equaveCents    *)
(* exact for every integer period.  mmod is the mathematical modulo of     *)
(* the fraction module.                                                    *)
(***************************************************************************)
DefaultEquaveCents == 1200

Fixed(n) == 2 * n

mmod(a, b) == a % b

\* The result left in [0, period) instead of moved back by half a period.
circleDifferenceNotCentred(a, b, equaveCents) ==
    LET half == equaveCents \div 2
    IN  mmod(a - b + half, equaveCents)

circleDifference(a, b, equaveCents) ==
    LET half == equaveCents \div 2
    IN  mmod(a - b + half, equaveCents) - half

circleDistance(a, b, equaveCents) == Abs(circleDifference(a, b, equaveCents))

(***************************************************************************)
(* kCombinations.  Arrays are sequences; index i of the code is i + 1.     *)
(***************************************************************************)
RECURSIVE kCombinations(_, _)
RECURSIVE kCombinationsLoop(_, _, _, _)
RECURSIVE kCombinationsLoopShort(_, _, _, _)

slice(set, from) == SubSeq(set, from + 1, Len(set))

\* The loop stopped one element early (i < set.length - k).
kCombinationsLoopShort(set, k, i, combs) ==
    IF i < Len(set) - k
    THEN LET head == <<set[i + 1]>>
             tailCombs == kCombinations(slice(set, i + 1), k - 1)
         IN  kCombinationsLoopShort(set, k, i + 1,
                 combs \o [j \in 1..Len(tailCombs) |-> head \o tailCombs[j]])
    ELSE combs

kCombinationsLoop(set, k, i, combs) ==
    IF i < Len(set) - k + 1
    THEN LET head == <<set[i + 1]>>
             tailCombs == kCombinations(slice(set, i + 1), k - 1)
         IN  kCombinationsLoop(set, k, i + 1,
                 combs \o [j \in 1..Len(tailCombs) |-> head \o tailCombs[j]])
    ELSE combs

kCombinations(set, k) ==
    IF k > Len(set) \/ k <= 0 THEN <<>>
    ELSE IF k = Len(set) THEN <<set>>
    ELSE IF k = 1 THEN [i \in 1..Len(set) |-> <<set[i]>>]
    ELSE kCombinationsLoop(set, k, 0, <<>>)

(***************************************************************************)
(* The calls a behaviour can make.                                         *)
(***************************************************************************)
SeqsUpTo(S, n) == UNION {[1..m -> S] : m \in 0..n}

Numbers == {Num(n) : n \in Range} \cup {NaN}

DivCalls == {[op |-> "div", args |-> <<a, b>>] : a \in Range, b \in Range}

EuclidCalls ==
    {[op |-> "extendedEuclid", args |-> <<a, b>>] : a \in Numbers, b \in Numbers}
    \cup {[op |-> "extendedEuclid", args |-> <<Num(240), Num(46)>>]}

IterNumbers == {Num(n) : n \in (0 - MaxIterInt)..MaxIterInt} \cup {NaN}

IterCalls ==
    {[op |-> "iteratedEuclid", args |-> <<params>>] :
        params \in SeqsUpTo(IterNumbers, MaxIterLen)}

CircleCalls ==
    {[op |-> "circleDistance", args |-> <<a, b, p>>] :
        a \in Range, b \in Range, p \in 1..MaxPeriod}
    \cup {[op |-> "circleDistance", args |-> <<1150, 50, DefaultEquaveCents>>]}

CombCalls ==
    {[op |-> "kCombinations", args |-> <<set, k>>] :
        set \in SeqsUpTo(1..MaxElement, MaxSetLen), k \in (0 - 1)..(MaxSetLen + 1)}

FractionSetCalls == {[op |-> "FractionSet", args |-> <<>>]}

Fractions ==
    {Fraction(num, den) :
        num \in (0 - MaxNumerator)..MaxNumerator, den \in 1..MaxDenominator}

Init ==
    /\ \/ call \in DivCalls
       \/ call \in EuclidCalls
       \/ call \in IterCalls
       \/ call \in CircleCalls
       \/ call \in CombCalls
       \/ call \in FractionSetCalls
    /\ pc = "call"
    /\ regs = ZeroRegs
    /\ ret = NoRet
    /\ fset = <<>>

Div ==
    /\ pc = "call"
    /\ call.op = "div"
    /\ ret' = Return(div(call.args[1], call.args[2]))
    /\ pc' = "done"
    /\ UNCHANGED <<call, regs, fset>>

ExtendedEuclidEnter ==
    /\ pc = "call"
    /\ call.op = "extendedEuclid"
    /\ IF InvalidInput(call.args[1], call.args[2])
       THEN /\ ret' = Throw("Invalid input")
            /\ pc' = "done"
            /\ UNCHANGED regs
       ELSE /\ regs' = EuclidInit(call.args[1].v, call.args[2].v)
            /\ pc' = "loop"
            /\ UNCHANGED ret
    /\ UNCHANGED <<call, fset>>

ExtendedEuclidIterate ==
    /\ pc = "loop"
    /\ regs.r # 0
    /\ regs' = EuclidStep(regs)
    /\ UNCHANGED <<call, pc, ret, fset>>

ExtendedEuclidReturn ==
    /\ pc = "loop"
    /\ regs.r = 0
    /\ ret' = Return(EuclidResult(regs))
    /\ pc' = "done"
    /\ UNCHANGED <<call, regs, fset>>

IteratedEuclid ==
    /\ pc = "call"
    /\ call.op = "iteratedEuclid"
    /\ ret' = iteratedEuclid(call.args[1])
    /\ pc' = "done"
    /\ UNCHANGED <<call, regs, fset>>

CircleDistance ==
    /\ pc = "call"
    /\ call.op = "circleDistance"
    /\ ret' = Return(circleDistance(Fixed(call.args[1]), Fixed(call.args[2]),
                                    Fixed(call.args[3])))
    /\ pc' = "done"
    /\ UNCHANGED <<call, regs, fset>>

KCombinations ==
    /\ pc = "call"
    /\ call.op = "kCombinations"
    /\ ret' = Return(kCombinations(call.args[1], call.args[2]))
    /\ pc' = "done"
    /\ UNCHANGED <<call, regs, fset>>

\* new FractionSet(): an empty set, on which the methods are then called.
FractionSetNew ==
    /\ pc = "call"
    /\ call.op = "FractionSet"
    /\ fset' = <<>>
    /\ pc' = "set"
    /\ UNCHANGED <<call, regs, ret>>

FractionSetHasCall(value) ==
    /\ pc = "set"
    /\ call' = [op |-> "has", args |-> <<value>>]
    /\ ret' = Return(FractionSetHas(fset, value))
    /\ UNCHANGED <<pc, regs, fset>>

FractionSetAddCall(value) ==
    /\ pc = "set"
    /\ Len(FractionSetAdd(fset, value)) <= MaxMembers
    /\ call' = [op |-> "add", args |-> <<value>>]
    /\ fset' = FractionSetAdd(fset, value)
    /\ ret' = ReturnThis
    /\ UNCHANGED <<pc, regs>>

FractionSetDeleteCall(value) ==
    /\ pc = "set"
    /\ call' = [op |-> "delete", args |-> <<value>>]
    /\ fset' = FractionSetDelete(fset, value).set
    /\ ret' = Return(FractionSetDelete(fset, value).result)
    /\ UNCHANGED <<pc, regs>>

Next ==
    \/ Div
    \/ ExtendedEuclidEnter
    \/ ExtendedEuclidIterate
    \/ ExtendedEuclidReturn
    \/ IteratedEuclid
    \/ CircleDistance
    \/ KCombinations
    \/ FractionSetNew
    \/ \E value \in Fractions : FractionSetHasCall(value)
    \/ \E value \in Fractions : FractionSetAddCall(value)
    \/ \E value \in Fractions : FractionSetDeleteCall(value)

Spec == Init /\ [][Next]_vars

\* The program is synchronous: a loop that has been entered is run to its end.
FairSpec ==
    /\ Spec
    /\ WF_<<pc, regs>>(ExtendedEuclidIterate)
    /\ WF_<<pc, regs>>(ExtendedEuclidReturn)

(***************************************************************************)
(* Properties.                                                             *)
(***************************************************************************)
Divides(d, n) == \E k \in (0 - Abs(n))..Abs(n) : n = k * d

\* q is the floor of the real number a / b, b # 0.
IsFloor(q, a, b) ==
    IF b > 0
    THEN q * b <= a /\ a < (q + 1) * b
    ELSE q * b >= a /\ a > (q + 1) * b

EuclidDone == pc = "done" /\ call.op = "extendedEuclid"

\* extendedEuclid has returned for integer inputs that are not both zero.
EuclidReturned ==
    /\ EuclidDone
    /\ ~isNaN(call.args[1])
    /\ ~isNaN(call.args[2])
    /\ ~(call.args[1].v = 0 /\ call.args[2].v = 0)

EuclidA == call.args[1].v
EuclidB == call.args[2].v

\* C1: for integers a, b not both zero, extendedEuclid(a, b) returns coefA,
\* coefB and gcd with a*coefA + b*coefB = gcd, and gcd divides a and b.
BezoutIdentity ==
    EuclidReturned =>
        /\ ret.kind = "return"
        /\ EuclidA * ret.val.coefA + EuclidB * ret.val.coefB = ret.val.gcd
        /\ Divides(ret.val.gcd, EuclidA)
        /\ Divides(ret.val.gcd, EuclidB)

BezoutScenario ==
    /\ EuclidReturned
    /\ call.args = <<Num(240), Num(46)>>
    /\ ret.val.gcd = 2
    /\ ret.val.coefA = 0 - 9
    /\ ret.val.coefB = 47

\* C2: for integers a, b not both zero, of either sign, the gcd returned by
\* extendedEuclid(a, b) is non-negative.
GcdNonNegative == EuclidReturned => ret.val.gcd >= 0

\* C3: for integers a, b not both zero, the quotientA returned by
\* extendedEuclid(a, b) is div(a, gcd), the floor quotient of a by the
\* returned gcd.
QuotientAIsFloorQuotient ==
    EuclidReturned => Num(ret.val.quotientA) = div(EuclidA, ret.val.gcd)

EuclidZeroZero == EuclidDone /\ call.args = <<Num(0), Num(0)>>

\* C5 as stated: extendedEuclid(0, 0) raises an error instead of returning.
ZeroZeroFails == EuclidZeroZero => ret.kind = "throw"

\* C5 amended: extendedEuclid(0, 0) raises nothing; it returns gcd = 0 with
\* the coefficients the loop starts from (coefA = 1, coefB = 0,
\* quotientA = 1, quotientB = 0).
ZeroZeroReturnsGcdZero ==
    EuclidZeroZero =>
        ret = Return([coefA |-> 1, coefB |-> 0, gcd |-> 0,
                      quotientA |-> 1, quotientB |-> 0])

ZeroZeroReturned == EuclidZeroZero /\ ret.kind = "return"

DivDone == pc = "done" /\ call.op = "div"

\* C6 as stated: div(a, b) is the floor of a / b for b # 0 and fails with a
\* DivisionByZero error for b = 0.
DivFloorsOrFails ==
    DivDone =>
        IF call.args[2] # 0
        THEN /\ ret.kind = "return"
             /\ ret.val.fin
             /\ IsFloor(ret.val.v, call.args[1], call.args[2])
        ELSE ret.kind = "throw"

\* C6 amended: div(a, b) is the floor of a / b for b # 0 (rounding toward
\* negative infinity); for b = 0 it raises nothing and returns a non-finite
\* value (Infinity, -Infinity or NaN).
DivFloorsOrNonFinite ==
    DivDone =>
        /\ ret.kind = "return"
        /\ IF call.args[2] # 0
           THEN ret.val.fin /\ IsFloor(ret.val.v, call.args[1], call.args[2])
           ELSE ~ret.val.fin

DivByZeroReturned ==
    /\ DivDone
    /\ call.args = <<0 - 5, 0>>
    /\ ret = Return(NegInfinity)

\* C10: for all integers a and b the loop of extendedEuclid terminates: each
\* iteration strictly decreases the absolute value of the remainder r, and
\* a result is eventually returned.
EuclidTerminates ==
    /\ [][(pc = "loop" /\ pc' = "loop") => Abs(regs'.r) < Abs(regs.r)]_<<pc, regs>>
    /\ (pc = "loop") ~> (pc = "done" /\ ret.kind = "return")

\* The loop has run at least once on a negative first argument and goes on.
EuclidMidLoop ==
    /\ pc = "loop"
    /\ EuclidA < 0
    /\ regs.rOld = EuclidB
    /\ regs.r # 0

IterDone == pc = "done" /\ call.op = "iteratedEuclid"

IterParams == call.args[1]

\* The parameters are integers, at least one of them not zero.
IterReturned ==
    /\ IterDone
    /\ \A i \in 1..Len(IterParams) : ~isNaN(IterParams[i])
    /\ \E i \in 1..Len(IterParams) : IterParams[i].v # 0

RECURSIVE WeightedSum(_, _, _)
WeightedSum(params, coefs, i) ==
    IF i > Len(params) THEN 0
    ELSE params[i].v * coefs[i] + WeightedSum(params, coefs, i + 1)

\* The greatest common divisor of integers that are not all zero.
GcdOfAll(params) ==
    LET Common(d) == \A i \in 1..Len(params) : Divides(d, params[i].v)
        top == CHOOSE m \in {Abs(params[i].v) : i \in 1..Len(params)} :
                   \A i \in 1..Len(params) : Abs(params[i].v) <= m
    IN  CHOOSE d \in 1..top : Common(d) /\ \A e \in (d + 1)..top : ~Common(e)

\* C4: for a finite sequence of integers with a nonzero element,
\* iteratedEuclid returns one coefficient per input, and the sum of the
\* inputs weighted by their coefficients is the gcd of all the inputs.
IteratedEuclidSumIsGcd ==
    IterReturned =>
        /\ ret.kind = "return"
        /\ Len(ret.val) = Len(IterParams)
        /\ WeightedSum(IterParams, ret.val, 1) = GcdOfAll(IterParams)

CircleDone == pc = "done" /\ call.op = "circleDistance"

\* C7: circleDistance(a, b, period) = circleDistance(b, a, period), and the
\* distance lies in [0, period / 2], for every positive period.
CircleDistanceSymmetricAndBounded ==
    CircleDone =>
        /\ ret.val = circleDistance(Fixed(call.args[2]), Fixed(call.args[1]),
                                    Fixed(call.args[3]))
        /\ 0 <= ret.val
        /\ 2 * ret.val <= Fixed(call.args[3])

\* 1150 and 50 cents are 100 cents apart across the octave.
CircleScenario ==
    /\ CircleDone
    /\ call.args = <<1150, 50, DefaultEquaveCents>>
    /\ ret.val = Fixed(100)

CombDone == pc = "done" /\ call.op = "kCombinations"

RECURSIVE Ascending(_)
Ascending(S) ==
    IF S = {} THEN <<>>
    ELSE LET m == CHOOSE x \in S : \A y \in S : x <= y
         IN  <<m>> \o Ascending(S \ {m})

\* The elements of set at the positions of S, in the order of the array.
Pick(set, S) == LET at == Ascending(S) IN [i \in 1..Len(at) |-> set[at[i]]]

PositionSets(n, k) == {S \in SUBSET (1..n) : Cardinality(S) = k}

\* C8: kCombinations(set, k) is empty for k <= 0 and for k > n; otherwise
\* it has binomial(n, k) entries, one for each set of k positions of the
\* array and no other, each listing the k elements at its positions in the
\* order of the array: an entry occurs as many times as there are position
\* sets that select it.
KCombinationsByPosition ==
    CombDone =>
        LET set == call.args[1]
            k == call.args[2]
            n == Len(set)
            out == ret.val
            Selecting(e) == {S \in PositionSets(n, k) : Pick(set, S) = e}
            Entries(e) == {j \in 1..Len(out) : out[j] = e}
        IN  IF k <= 0 \/ k > n
            THEN out = <<>>
            ELSE /\ Len(out) = binomial(n, k)
                 /\ \A j \in 1..Len(out) : Len(out[j]) = k
                 /\ \A S \in PositionSets(n, k) :
                        Cardinality(Entries(Pick(set, S)))
                            = Cardinality(Selecting(Pick(set, S)))
                 /\ \A j \in 1..Len(out) : Selecting(out[j]) # {}

\* Two of the six pairs of positions of [1, 1, 2, 2] select equal values.
CombRepeatedValues ==
    /\ CombDone
    /\ call.args = <<<<1, 1, 2, 2>>, 2>>
    /\ Len(ret.val) = 6
    /\ ret.val[2] = ret.val[3]

\* C9: no two members of a FractionSet are equal as fractions; add(v)
\* leaves the set as it is when a member equal to v is present; after
\* delete(v), has(v) is false.
FractionSetMembersUnique ==
    /\ [](\A i, j \in 1..Len(fset) : i # j => ~equals(fset[i], fset[j]))
    /\ [][(pc = "set" /\ call'.op = "add"
              /\ \E i \in 1..Len(fset) : equals(fset[i], call'.args[1]))
            => fset' = fset]_<<call, fset>>
    /\ [][(pc = "set" /\ call'.op = "delete")
            => ~FractionSetHas(fset', call'.args[1])]_<<call, fset>>

\* add has just refused an object equal to, but other than, a member.
FractionSetAddRefused ==
    /\ pc = "set"
    /\ call.op = "add"
    /\ Len(fset) = 2
    /\ \E i \in 1..Len(fset) :
           /\ equals(fset[i], call.args[1])
           /\ fset[i].obj # call.args[1].obj
====
